---------------------------- MODULE Spec2Model ----------------------------
(***************************************************************************)
(* A model of GessGame.py: the Gess board, the 3x3 Piece, and the GessGame *)
(* operations make_move, resign_game and check_win.                        *)
(*                                                                         *)
(* A board point is a pair <<x, y>>; the board is indexed board[x][y] as   *)
(* in the source.  An input coordinate such as "c3" is the pair            *)
(* <<"c", 3>>: its letter start_center[0] and its number                   *)
(* int(start_center[1:]).                                                  *)
(***************************************************************************)
EXTENDS Integers, Sequences, FiniteSets, TLC

VARIABLES
    board,           \* Board._board_area, board[x][y] in {" ", "B", "W"}
    game_state,      \* GessGame._game_state
    current_player,  \* GessGame._current_player
    op,              \* the call that has just returned: "make_move", "resign_game",
                     \* "check_win", or "none" between two calls
    start_center,    \* first argument of the last make_move call
    end_center,      \* second argument of the last make_move call
    ret,             \* what that call returned: TRUE or FALSE (make_move), a verdict
                     \* (check_win), "None" otherwise
    black_ring,      \* check_win's local black_ring when it last reached its verdict
    white_ring,      \* check_win's local white_ring when it last reached its verdict
    moves,           \* number of make_move calls that returned True
    frame            \* the locals of a make_move call that is followed statement by
                     \* statement, and where it stands (NoFrame when none is)

vars == <<board, game_state, current_player, op, start_center, end_center,
          ret, black_ring, white_ring, moves, frame>>

---------------------------------------------------------------------------
(* Bounds of the model *)

\* make_move calls that return True along one behaviour
MaxMoves == 5

\* The coordinates the callers pass to make_move.
InputCenters ==
    { <<"a", 5>>, <<"t", 5>>, <<"c", 1>>, <<"c", 20>>,
      <<"c", 2>>, <<"c", 3>>, <<"c", 6>>,
      <<"i", 3>>, <<"i", 6>>, <<"i", 10>>, <<"j", 10>>,
      <<"l", 18>>, <<"l", 15>>, <<"l", 12>> }

NoCenter == <<"-", 0>>

\* no call is followed statement by statement
NoFrame ==
    [pc |-> "idle", valid |-> {}, filled |-> {}, pos |-> <<0, 0>>, loc |-> <<0, 0>>,
     points |-> <<>>, point |-> <<0, 0>>, scale |-> 0, check |-> <<0, 0>>]

---------------------------------------------------------------------------
(* Board *)

\* side length of the board: range(20)
N == 20

Rows == 0 .. (N - 1)

\* Python list indexing: a negative index counts from the end of the list
Idx(k) == IF k < 0 THEN k + N ELSE k

\* board[p[0]][p[1]] as Python evaluates it
At(b, p) == b[Idx(p[1])][Idx(p[2])]

black_start ==
    { <<1, 2>>, <<2, 2>>, <<2, 1>>, <<2, 3>>, <<3, 2>>, <<4, 1>>, <<4, 3>>,
      <<5, 2>>, <<6, 1>>, <<6, 3>>, <<7, 1>>, <<7, 2>>, <<7, 3>>, <<8, 1>>,
      <<8, 2>>, <<8, 3>>, <<9, 1>>, <<9, 2>>, <<9, 3>>, <<10, 1>>, <<10, 2>>,
      <<10, 3>>, <<11, 1>>, <<11, 3>>, <<12, 1>>, <<12, 2>>, <<12, 3>>,
      <<13, 1>>, <<13, 3>>, <<14, 2>>, <<15, 1>>, <<15, 3>>, <<16, 2>>,
      <<17, 1>>, <<17, 2>>, <<17, 3>>, <<18, 2>>, <<2, 6>>, <<5, 6>>,
      <<8, 6>>, <<11, 6>>, <<14, 6>>, <<17, 6>> }

\* Board._border
Border ==
    { <<0, i>> : i \in Rows } \cup { <<N - 1, i>> : i \in Rows } \cup
    { <<i, 0>> : i \in Rows } \cup { <<i, N - 1>> : i \in Rows }

\* Board._locmap
Locmap ==
    [a |-> 0, b |-> 1, c |-> 2, d |-> 3, e |-> 4, f |-> 5, g |-> 6, h |-> 7,
     i |-> 8, j |-> 9, k |-> 10, l |-> 11, m |-> 12, n |-> 13, o |-> 14,
     p |-> 15, q |-> 16, r |-> 17, s |-> 18, t |-> 19]

\* Board.__init__: black on black_start, white on its mirror [-coord[1] - 1]
InitBoard ==
    [x \in Rows |-> [y \in Rows |->
        IF <<x, y>> \in black_start THEN "B"
        ELSE IF <<x, N - 1 - y>> \in black_start THEN "W"
        ELSE " "]]

EmptyBoard == [x \in Rows |-> [y \in Rows |-> " "]]

---------------------------------------------------------------------------
(* Piece *)

Offsets == { <<i, j>> : i \in -1 .. 1, j \in -1 .. 1 }

\* Piece._area
Area(center) == { <<center[1] + o[1], center[2] + o[2]>> : o \in Offsets }

\* Filled with the offsets taken from the stone to the centre
Filled_Mirrored(b, center) ==
    { <<center[1] - pos[1], center[2] - pos[2]>> :
        pos \in { q \in Area(center) : At(b, q) # " " } } \ { <<0, 0>> }

\* Piece._filled
Filled(b, center) ==
    { <<pos[1] - center[1], pos[2] - center[2]>> :
        pos \in { q \in Area(center) : At(b, q) # " " } } \ { <<0, 0>> }

\* Piece._unlimited
Unlimited(b, center) == At(b, center) # " "

\* Piece.get_area_contents
AreaContents(b, center) == { At(b, point) : point \in Area(center) }

\* the loop guard of the unlimited branch and the filter of the limited one
InRange(loc) == 0 < loc[1] /\ loc[1] < N /\ 0 < loc[2] /\ loc[2] < N

\* the while loop of the unlimited branch, started at loc
RECURSIVE Slide(_, _)
Slide(loc, pos) ==
    IF InRange(loc)
    THEN LET next == <<loc[1] + pos[1], loc[2] + pos[2]>>
         IN  {next} \cup Slide(next, pos)
    ELSE {}

\* the number of steps a limited piece may take
LimitedSteps == 3

\* the three guarded adds of the limited branch
Steps(loc, pos) ==
    { q \in { <<loc[1] + k * pos[1], loc[2] + k * pos[2]>> : k \in 1 .. LimitedSteps } :
        InRange(q) }

\* Piece.valid_moves
ValidMoves(b, center) ==
    IF Unlimited(b, center)
    THEN UNION { Slide(center, pos) : pos \in Filled(b, center) }
    ELSE UNION { Steps(center, pos) : pos \in Filled(b, center) }

\* set(mov_map.keys()), the value Piece.move returns
MovedKeys(center, location) ==
    { <<position[1] + (location[1] - center[1]), position[2] + (location[2] - center[2])>> :
        position \in Area(center) }

\* Piece.move without its second loop
Move_NoClearing(b, center, location) ==
    LET disp_x == location[1] - center[1]
        disp_y == location[2] - center[2]
        area   == Area(center)
        dest(p) == <<Idx(p[1] + disp_x), Idx(p[2] + disp_y)>>
        dests   == { dest(p) : p \in area }
    IN  [x \in Rows |-> [y \in Rows |->
            IF <<x, y>> \in dests
            THEN At(b, CHOOSE p \in area : dest(p) = <<x, y>>)
            ELSE b[x][y]]]

\* Piece.move with the second loop run after the third
Move_ClearAfterWrite(b, center, location) ==
    LET disp_x == location[1] - center[1]
        disp_y == location[2] - center[2]
        area   == Area(center)
        src    == { <<Idx(p[1]), Idx(p[2])>> : p \in area }
        dest(p) == <<Idx(p[1] + disp_x), Idx(p[2] + disp_y)>>
        dests   == { dest(p) : p \in area }
    IN  [x \in Rows |-> [y \in Rows |->
            IF <<x, y>> \in src THEN " "
            ELSE IF <<x, y>> \in dests
            THEN At(b, CHOOSE p \in area : dest(p) = <<x, y>>)
            ELSE b[x][y]]]

\* Piece.move: the board after the three loops
Move(b, center, location) ==
    LET disp_x == location[1] - center[1]
        disp_y == location[2] - center[2]
        area   == Area(center)
        \* the cells the first loop reads and the second loop clears
        src    == { <<Idx(p[1]), Idx(p[2])>> : p \in area }
        \* the cell the third loop writes for position p; no two positions of
        \* one area write the same cell
        dest(p) == <<Idx(p[1] + disp_x), Idx(p[2] + disp_y)>>
        dests   == { dest(p) : p \in area }
    IN  [x \in Rows |-> [y \in Rows |->
            IF <<x, y>> \in dests
            THEN At(b, CHOOSE p \in area : dest(p) = <<x, y>>)
            ELSE IF <<x, y>> \in src THEN " "
            ELSE b[x][y]]]

---------------------------------------------------------------------------
(* GessGame.check_obstruction *)

\* Sign with the two directions exchanged
Sign_Reversed(d) == IF d > 0 THEN -1 ELSE IF d = 0 THEN 0 ELSE 1

\* the shift value of a displacement
Sign(d) == IF d > 0 THEN 1 ELSE IF d = 0 THEN 0 ELSE -1

\* Walk without the exemption of the point's own destination
RECURSIVE Walk_NoDestinationExemption(_, _, _, _, _, _, _)
Walk_NoDestinationExemption(b, space, point, disp, shift, check, scale) ==
    LET dest == <<point[1] + disp[1], point[2] + disp[2]>>
    IN  IF check = dest
        THEN [obstructed |-> FALSE, check |-> check]
        ELSE LET c == <<point[1] + shift[1] * scale, point[2] + shift[2] * scale>>
             IN  IF c \notin space /\ At(b, c) # " "
                 THEN [obstructed |-> TRUE, check |-> c]
                 ELSE Walk_NoDestinationExemption(b, space, point, disp, shift, c, scale + 1)

\* The while loop for one point, entered with the (check_x, check_y) left by
\* the previous point.  The result is whether the loop returned True, and the
\* (check_x, check_y) it leaves.
RECURSIVE Walk(_, _, _, _, _, _, _)
Walk(b, space, point, disp, shift, check, scale) ==
    LET dest == <<point[1] + disp[1], point[2] + disp[2]>>
    IN  IF check = dest
        THEN [obstructed |-> FALSE, check |-> check]
        ELSE LET c == <<point[1] + shift[1] * scale, point[2] + shift[2] * scale>>
             IN  IF c \notin space /\ At(b, c) # " " /\ c # dest
                 THEN [obstructed |-> TRUE, check |-> c]
                 ELSE Walk(b, space, point, disp, shift, c, scale + 1)

\* The for loop over the points of space, visited in the order of the sequence
\* points; check_x and check_y are not reset between points.
RECURSIVE ForPoints(_, _, _, _, _, _)
ForPoints(b, space, points, disp, shift, check) ==
    IF points = <<>>
    THEN FALSE
    ELSE LET r == Walk(b, space, Head(points), disp, shift, check, 1)
         IN  IF r.obstructed
             THEN TRUE
             ELSE ForPoints(b, space, Tail(points), disp, shift, r.check)

\* check_obstruction, with the order in which "for point in space" visits the set
CheckObstruction(b, start, end, order) ==
    LET disp  == <<end[1] - start[1], end[2] - start[2]>>
        shift == <<Sign(disp[1]), Sign(disp[2])>>
    IN  ForPoints(b, Area(start), order, disp, shift, <<0, 0>>)

\* The points of a piece's area in one fixed order
AreaSeq(center) ==
    [n \in 1 .. 9 |-> <<center[1] + ((n - 1) \div 3) - 1, center[2] + ((n - 1) % 3) - 1>>]

\* Iteration orders of the set piece.get_area(): the language fixes none.  One
\* order per choice of the point visited first.
AreaOrders(center) ==
    { [n \in 1 .. 9 |-> AreaSeq(center)[((n - 1 + r) % 9) + 1]] : r \in 0 .. 8 }

---------------------------------------------------------------------------
(* GessGame.check_win *)

\* the set surround of point (i, j)
Surround(b, i, j) ==
    { b[i + 1][j], b[i - 1][j], b[i + 1][j + 1], b[i + 1][j - 1], b[i - 1][j],
      b[i - 1][j - 1], b[i - 1][j + 1], b[i][j - 1] }

\* Whether the scan sets the ring flag of a stone colour
RingFlag(b, stone) ==
    \E i \in 1 .. 18 : \E j \in 1 .. 18 :
        b[i][j] = " " /\ Surround(b, i, j) = {stone}

\* black_ring and white_ring after the scan
BlackRing(b) == RingFlag(b, "B")
WhiteRing(b) == RingFlag(b, "W")

\* Verdict with the white ring tested first
Verdict_WhiteFirst(black, white) ==
    IF ~white THEN "BLACK_WON"
    ELSE IF ~black THEN "WHITE_WON"
    ELSE "UNFINISHED"

\* the verdict from the two flags
Verdict(black, white) ==
    IF ~black THEN "WHITE_WON"
    ELSE IF ~white THEN "BLACK_WON"
    ELSE "UNFINISHED"

CheckWin(b) == Verdict(BlackRing(b), WhiteRing(b))

---------------------------------------------------------------------------
(* GessGame.make_move *)

\* GameOver that forgets one of the two won states
GameOver_OnlyBlackWon(gs) == gs = "BLACK_WON"

\* the game must be unfinished
GameOver(gs) == gs # "UNFINISHED"

\* the border test applied to start_center and to end_center
OnBorderInput(c) == c[1] = "a" \/ c[1] = "t" \/ c[2] >= 20 \/ c[2] <= 0

\* (start_x, start_y) and (end_x, end_y)
Decode(c) == <<Locmap[c[1]], c[2] - 1>>

\* WrongColour without the test "White cannot move black stones"
WrongColour_NoWhiteTest(contents, cp) ==
    \/ "B" \in contents /\ "W" \in contents
    \/ cp = "BLACK" /\ "W" \in contents

\* WrongColour without the test "Black cannot move white stones"
WrongColour_NoBlackPlayerTest(contents, cp) ==
    \/ "B" \in contents /\ "W" \in contents
    \/ cp = "WHITE" /\ "B" \in contents

\* the three colour tests on the contents of the moving piece
WrongColour(contents, cp) ==
    \/ "B" \in contents /\ "W" \in contents
    \/ cp = "BLACK" /\ "W" \in contents
    \/ cp = "WHITE" /\ "B" \in contents

\* every test before the call of check_obstruction
RejectedBeforePath(b, gs, cp, sc, ec) ==
    \/ GameOver(gs)
    \/ OnBorderInput(sc)
    \/ OnBorderInput(ec)
    \/ WrongColour(AreaContents(b, Decode(sc)), cp)
    \/ Decode(ec) \notin ValidMoves(b, Decode(sc))

\* the loop that deletes the new points that are in the border
BorderCleanup(b, new) ==
    [x \in Rows |-> [y \in Rows |->
        IF <<x, y>> \in new /\ <<x, y>> \in Border THEN " " ELSE b[x][y]]]

\* NextPlayer that reverses the player whatever the game state
NextPlayer_AlwaysReverse(cp, gs) == IF cp = "BLACK" THEN "WHITE" ELSE "BLACK"

\* reverse the current player if the game continues
NextPlayer(cp, gs) ==
    IF gs = "UNFINISHED"
    THEN IF cp = "BLACK" THEN "WHITE" ELSE "BLACK"
    ELSE cp

\* a "return False" path
Rejected(b, gs, cp, br, wr) ==
    [ret |-> FALSE, board |-> b, game_state |-> gs, current_player |-> cp,
     black_ring |-> br, white_ring |-> wr]

\* A board as an explicit table: the value is f itself (the comparison makes
\* TLC compute every cell once instead of at each later read)
Table(f) == IF f = f THEN f ELSE f

\* from the call of move to "return True"
Executed(b, cp, start, end) ==
    LET moved   == Table(Move(b, start, end))
        cleaned == Table(BorderCleanup(moved, MovedKeys(start, end)))
        br      == BlackRing(cleaned)
        wr      == WhiteRing(cleaned)
        gs      == Verdict(br, wr)
    IN  [ret |-> TRUE, board |-> cleaned, game_state |-> gs,
         current_player |-> NextPlayer(cp, gs), black_ring |-> br, white_ring |-> wr]

\* make_move that relocates the piece before it looks at the path
make_move_MoveBeforePathCheck(b, gs, cp, br, wr, sc, ec, obstructed) ==
    IF RejectedBeforePath(b, gs, cp, sc, ec)
    THEN Rejected(b, gs, cp, br, wr)
    ELSE IF obstructed
    THEN Rejected(Table(Move(b, Decode(sc), Decode(ec))), gs, cp, br, wr)
    ELSE Executed(b, cp, Decode(sc), Decode(ec))

\* make_move(sc, ec) on the state (b, gs, cp), where obstructed is what its
\* call of check_obstruction returns, if it makes that call; br and wr are
\* carried unchanged when check_win is not reached
make_move(b, gs, cp, br, wr, sc, ec, obstructed) ==
    IF RejectedBeforePath(b, gs, cp, sc, ec)
    THEN Rejected(b, gs, cp, br, wr)
    ELSE IF obstructed
    THEN Rejected(b, gs, cp, br, wr)
    ELSE Executed(b, cp, Decode(sc), Decode(ec))

\* What the call of check_obstruction in make_move(sc, ec) can return, over the
\* orders in which it may visit the piece's area
ObstructionReturns(b, gs, cp, sc, ec) ==
    IF RejectedBeforePath(b, gs, cp, sc, ec)
    THEN {FALSE}
    ELSE { CheckObstruction(b, Decode(sc), Decode(ec), order) :
             order \in AreaOrders(Decode(sc)) }

\* GessGame.resign_game
resign_game(cp) == IF cp = "BLACK" THEN "WHITE_WON" ELSE "BLACK_WON"

---------------------------------------------------------------------------
(* The game: GessGame() followed by any calls of make_move and resign_game *)

Init ==
    /\ board = InitBoard
    /\ game_state = "UNFINISHED"
    /\ current_player = "BLACK"
    /\ op = "none"
    /\ start_center = NoCenter
    /\ end_center = NoCenter
    /\ ret = "None"
    /\ black_ring = FALSE
    /\ white_ring = FALSE
    /\ moves = 0
    /\ frame = NoFrame

MakeMove(sc, ec) ==
    /\ op = "none"
    /\ \E obstructed \in ObstructionReturns(board, game_state, current_player, sc, ec) :
        LET out == make_move(board, game_state, current_player, black_ring,
                             white_ring, sc, ec, obstructed)
        IN  /\ out.ret => moves < MaxMoves
            /\ board' = out.board
            /\ game_state' = out.game_state
            /\ current_player' = out.current_player
            /\ black_ring' = out.black_ring
            /\ white_ring' = out.white_ring
            /\ ret' = out.ret
            /\ op' = "make_move"
            /\ start_center' = sc
            /\ end_center' = ec
            /\ moves' = IF out.ret THEN moves + 1 ELSE moves
            /\ UNCHANGED frame

ResignGame ==
    /\ op = "none"
    /\ game_state' = resign_game(current_player)
    /\ op' = "resign_game"
    /\ ret' = "None"
    /\ start_center' = NoCenter
    /\ end_center' = NoCenter
    /\ UNCHANGED <<board, current_player, black_ring, white_ring, moves, frame>>

\* The caller of the game, not a method of it: it has read the result of its
\* last call and goes on to the next.  The program state is left alone.
NextCall ==
    /\ op # "none"
    /\ op' = "none"
    /\ ret' = "None"
    /\ start_center' = NoCenter
    /\ end_center' = NoCenter
    /\ UNCHANGED <<board, game_state, current_player, black_ring, white_ring, moves, frame>>

Next ==
    \/ \E sc \in InputCenters, ec \in InputCenters : MakeMove(sc, ec)
    \/ ResignGame
    \/ NextCall

Spec == Init /\ [][Next]_vars

---------------------------------------------------------------------------
(* check_win as a function of the board: it is called on a board drawn from  *)
(* WinBoards, rings of one colour with a few cells altered, stamped on a     *)
(* background.                                                               *)

\* cells of a stamped ring that differ from the ring
MaxAltered == 1

Cells == {" ", "B", "W"}

\* an Empty centre with the eight cells around it of colour stone, except
\* where alt says otherwise
RingPattern(stone, alt) ==
    [o \in Offsets |->
        IF o \in DOMAIN alt THEN alt[o]
        ELSE IF o = <<0, 0>> THEN " " ELSE stone]

Alterations ==
    UNION { [S -> Cells] : S \in { T \in SUBSET Offsets : Cardinality(T) <= MaxAltered } }

\* board b with the 3x3 pattern pat written around centre
Stamp(b, centre, pat) ==
    [x \in Rows |-> [y \in Rows |->
        IF <<x - centre[1], y - centre[2]>> \in Offsets
        THEN pat[<<x - centre[1], y - centre[2]>>]
        ELSE b[x][y]]]

\* board b without the stones of colour stone
Without(b, stone) ==
    [x \in Rows |-> [y \in Rows |-> IF b[x][y] = stone THEN " " ELSE b[x][y]]]

WinBases == { EmptyBoard, InitBoard, Without(InitBoard, "B"), Without(InitBoard, "W") }

WinCentres == { <<5, 9>>, <<1, 1>>, <<18, 18>> }

WinBoards ==
    { Stamp(b, c, RingPattern(stone, alt)) :
        b \in WinBases, c \in WinCentres, stone \in {"B", "W"}, alt \in Alterations }

InitWin ==
    /\ board \in WinBoards
    /\ game_state = "UNFINISHED"
    /\ current_player = "BLACK"
    /\ op = "none"
    /\ start_center = NoCenter
    /\ end_center = NoCenter
    /\ ret = "None"
    /\ black_ring = FALSE
    /\ white_ring = FALSE
    /\ moves = 0
    /\ frame = NoFrame

\* a call of check_win on the board
CheckWinCall ==
    /\ op = "none"
    /\ op' = "check_win"
    /\ black_ring' = BlackRing(board)
    /\ white_ring' = WhiteRing(board)
    /\ ret' = CheckWin(board)
    /\ UNCHANGED <<board, game_state, current_player, start_center, end_center, moves, frame>>

NextWin == CheckWinCall

SpecWin == InitWin /\ [][NextWin]_vars

---------------------------------------------------------------------------
(* Properties *)

Won == {"BLACK_WON", "WHITE_WON"}

StoneOf(player) == IF player = "BLACK" THEN "B" ELSE "W"

Other(player) == IF player = "BLACK" THEN "WHITE" ELSE "BLACK"

\* C1: a make_move call that returns False changes no board cell, nor the
\* game state, nor the current player.
C1_RejectedMoveChangesNothing ==
    [][(op' = "make_move" /\ ret' = FALSE) =>
          /\ board' = board
          /\ game_state' = game_state
          /\ current_player' = current_player]_vars

\* C1 happens: a move was rejected by the last of the checks, the obstructed path
C1_Witness ==
    /\ op = "make_move"
    /\ ret = FALSE
    /\ ~RejectedBeforePath(board, game_state, current_player, start_center, end_center)

\* C2: make_move returns False whenever the decoded start anchor or the decoded
\* end anchor has row or column index 0 or 19.
C2_BorderAnchorIsRejected ==
    (op = "make_move" /\ (Decode(start_center) \in Border \/ Decode(end_center) \in Border))
        => ret = FALSE

\* C3: every cell of the border ring is Empty in every reachable state.
C3_BorderIsEmpty == \A p \in Border : board[p[1]][p[2]] = " "

\* C4: in a won game make_move returns False, whatever its arguments, and
\* leaves the board unchanged.
C4_NoMoveAfterWin ==
    [][(op' = "make_move" /\ game_state \in Won) => (ret' = FALSE /\ board' = board)]_vars

\* C4 happens: make_move was called in a won game
C4_Witness == op = "make_move" /\ ret = FALSE /\ game_state \in Won

\* C5: once the game state is BLACK_WON or WHITE_WON no call changes it.
C5_WonIsTerminal == [][(game_state \in Won) => (game_state' = game_state)]_vars

\* a ring as C6 defines it: an Empty interior cell whose 8 neighbours all hold stone
Ring8(b, stone) ==
    \E i \in 1 .. 18 : \E j \in 1 .. 18 :
        /\ b[i][j] = " "
        /\ \A o \in Offsets \ {<<0, 0>>} : b[i + o[1]][j + o[2]] = stone

\* C6: check_win takes colour X to have a ring exactly when some Empty interior
\* cell has all 8 of its neighbours of colour X.
C6_RingIsEightNeighbours ==
    op = "check_win" =>
        /\ black_ring = Ring8(board, "B")
        /\ white_ring = Ring8(board, "W")

\* C7: check_win returns WHITE_WON exactly when it found no black ring,
\* BLACK_WON exactly when it found a black ring and no white ring, and
\* UNFINISHED exactly when it found both.
C7_VerdictPrecedence ==
    op = "check_win" =>
        /\ (ret = "WHITE_WON") = ~black_ring
        /\ (ret = "BLACK_WON") = (black_ring /\ ~white_ring)
        /\ (ret = "UNFINISHED") = (black_ring /\ white_ring)

\* C7 happens: check_win ran on a board with neither ring
C7_Witness ==
    op = "check_win" /\ ~black_ring /\ ~white_ring /\ ret = "WHITE_WON"

\* C8: a make_move call returns True only when every stone in the footprint of
\* its start anchor is of the current player's colour (so it returns False
\* when the footprint holds both colours or a stone of the other colour).
C8_OnlyOwnStonesMove ==
    [][(op' = "make_move" /\ ret' = TRUE) =>
          AreaContents(board, Decode(start_center')) \subseteq {" ", StoneOf(current_player)}]_vars

\* C8 happens: a move of a footprint holding both colours was rejected
C8_Witness ==
    /\ op = "make_move"
    /\ ret = FALSE
    /\ game_state = "UNFINISHED"
    /\ ~OnBorderInput(start_center)
    /\ ~OnBorderInput(end_center)
    /\ {"B", "W"} \subseteq AreaContents(board, Decode(start_center))

\* the player of the n-th make_move that returns True, counting from 0
Mover(n) == IF n % 2 = 0 THEN "BLACK" ELSE "WHITE"

\* C9: the current player changes only in a make_move that returns True and
\* leaves the game UNFINISHED, and then it becomes the other colour; every
\* other call leaves it unchanged; the movers of the successful moves are
\* BLACK, WHITE, BLACK, ...
C9_TurnOrder ==
    [][/\ (op' = "make_move" /\ ret' = TRUE /\ game_state' = "UNFINISHED")
            => current_player' = Other(current_player)
       /\ ~(op' = "make_move" /\ ret' = TRUE /\ game_state' = "UNFINISHED")
            => current_player' = current_player
       /\ (op' = "make_move" /\ ret' = TRUE) => current_player = Mover(moves)]_vars

\* C9 happens: White has made the second successful move and Black is to move
C9_Witness ==
    /\ op = "make_move"
    /\ ret = TRUE
    /\ moves = 2
    /\ game_state = "UNFINISHED"
    /\ current_player = "BLACK"

c3 == <<"c", 3>>
c6 == <<"c", 6>>

\* the first call is make_move("c3", "c6") on the opening board
OpeningC3C6 ==
    /\ board = InitBoard
    /\ game_state = "UNFINISHED"
    /\ current_player = "BLACK"
    /\ moves = 0
    /\ op' = "make_move"
    /\ start_center' = c3
    /\ end_center' = c6

\* the end anchor is exactly k steps from the start anchor along a direction
\* in which the footprint of the start anchor holds a stone
AlongOccupied(b, start, end, k) ==
    \E d \in Offsets \ {<<0, 0>>} :
        /\ At(b, <<start[1] + d[1], start[2] + d[2]>>) # " "
        /\ end = <<start[1] + k * d[1], start[2] + k * d[2]>>

\* the path is Clear for every order of visiting the area
ClearPath(b, start, end) ==
    \A order \in AreaOrders(start) : ~CheckObstruction(b, start, end, order)

\* C10 as stated: on the opening board make_move("c3", "c6") returns True with
\* game state UNFINISHED, as a Limited move: the centre of the cluster at c3 is
\* Empty, the target is 3 steps along an occupied direction, the path is Clear.
C10_OpeningMoveIsLimited ==
    [][OpeningC3C6 =>
          /\ ret' = TRUE
          /\ game_state' = "UNFINISHED"
          /\ At(board, Decode(c3)) = " "
          /\ AlongOccupied(board, Decode(c3), Decode(c6), 3)
          /\ ClearPath(board, Decode(c3), Decode(c6))]_vars

\* C10 amended: the same, as an Unlimited move: the centre of the cluster at c3
\* holds a black stone.
C10_OpeningMoveIsUnlimited ==
    [][OpeningC3C6 =>
          /\ ret' = TRUE
          /\ game_state' = "UNFINISHED"
          /\ At(board, Decode(c3)) = "B"
          /\ AlongOccupied(board, Decode(c3), Decode(c6), 3)
          /\ ClearPath(board, Decode(c3), Decode(c6))]_vars

\* C10 happens: the first call was make_move("c3", "c6") and it returned True
C10_Witness ==
    /\ op = "make_move"
    /\ start_center = c3
    /\ end_center = c6
    /\ ret = TRUE
    /\ moves = 1
    /\ board # InitBoard


\* end = start + k * d for a non-centre offset d at which the footprint of start
\* holds a stone on board b, and k in 1 .. max
Displaced(b, start, end, max) ==
    \E d \in Offsets \ {<<0, 0>>} : \E k \in 1 .. max :
        /\ At(b, <<start[1] + d[1], start[2] + d[2]>>) # " "
        /\ end = <<start[1] + k * d[1], start[2] + k * d[2]>>

\* C11: a make_move call that returns True displaces the anchor by k * d, d the
\* offset of a stone of the start footprint other than its centre and k >= 1,
\* with k <= 3 when the centre of the start footprint is Empty; so start = end
\* never succeeds, nor does a cluster with no stone outside its centre move.
C11_MobilityLaw ==
    [][(op' = "make_move" /\ ret' = TRUE) =>
          LET start == Decode(start_center')
              end   == Decode(end_center')
          IN  /\ Displaced(board, start, end, N)
              /\ At(board, start) = " " => Displaced(board, start, end, 3)
              /\ start # end
              /\ AreaContents(board, start) # {" "}]_vars

\* C11 happens: a cluster with an Empty centre has moved 3 steps (it carries its
\* Empty centre to the end anchor)
C11_Witness ==
    /\ op = "make_move"
    /\ ret = TRUE
    /\ At(board, Decode(end_center)) = " "
    /\ Decode(end_center)[2] - Decode(start_center)[2] \in {3, -3}

---------------------------------------------------------------------------
(* Piece as make_move builds and uses it: Piece((x, y), board) for a start    *)
(* anchor that passes the border test, then one call of valid_moves, of       *)
(* check_obstruction or of move.  The board holds the stones of one cluster   *)
(* and at most one stone more.                                                *)

\* cells of the 3x3 footprint that hold a stone
MaxOccupied == 2

\* the start anchors
PieceCentres ==
    { <<"b", 2>>, <<"e", 5>>, <<"f", 6>>, <<"r", 6>>, <<"c", 1>>, <<"j", 18>>, <<"s", 19>> }

\* where the stone outside the cluster may stand
ObstacleCells ==
    { <<1, 1>>, <<2, 2>>, <<3, 3>>, <<8, 5>>, <<2, 3>>, <<9, 14>>, <<18, 8>>, <<16, 16>> }

\* the end anchors that pass the border test of make_move
EndCentres ==
    { <<letter, number>> : letter \in (DOMAIN Locmap) \ {"a", "t"}, number \in 1 .. (N - 1) }

\* a footprint with black stones on the offsets in occupied
ClusterPattern(occupied) == [o \in Offsets |-> IF o \in occupied THEN "B" ELSE " "]

\* board b with a white stone on cell p
WithStone(b, p) ==
    [x \in Rows |-> [y \in Rows |-> IF <<x, y>> = p THEN "W" ELSE b[x][y]]]

PieceBackgrounds == {EmptyBoard} \cup { WithStone(EmptyBoard, p) : p \in ObstacleCells }

InitPiece ==
    /\ start_center \in PieceCentres
    /\ \E occupied \in { T \in SUBSET Offsets : Cardinality(T) <= MaxOccupied } :
       \E background \in PieceBackgrounds :
           board = Stamp(background, Decode(start_center), ClusterPattern(occupied))
    /\ game_state = "UNFINISHED"
    /\ current_player = "BLACK"
    /\ op = "none"
    /\ end_center = NoCenter
    /\ ret = "None"
    /\ black_ring = FALSE
    /\ white_ring = FALSE
    /\ moves = 0
    /\ frame = NoFrame

\* moving_piece.valid_moves()
ValidMovesCall ==
    /\ op = "none"
    /\ op' = "valid_moves"
    /\ ret' = ValidMoves(board, Decode(start_center))
    /\ UNCHANGED <<board, game_state, current_player, start_center, end_center,
                   black_ring, white_ring, moves, frame>>

\* the end anchors with which make_move goes on after its tests of the border
\* and of valid_moves
PassedEnds ==
    IF op = "none"
    THEN LET valid == ValidMoves(board, Decode(start_center))
         IN  { ec \in EndCentres : ~OnBorderInput(ec) /\ Decode(ec) \in valid }
    ELSE {}

\* self.check_obstruction(start_x, start_y, end_x, end_y, moving_piece)
CheckObstructionCall(ec) ==
    /\ op = "none"
    /\ ret' \in { CheckObstruction(board, Decode(start_center), Decode(ec), order) :
                    order \in AreaOrders(Decode(start_center)) }
    /\ op' = "check_obstruction"
    /\ end_center' = ec
    /\ UNCHANGED <<board, game_state, current_player, start_center,
                   black_ring, white_ring, moves, frame>>

\* moving_piece.move((end_x, end_y)), reached when check_obstruction returned False
MoveCall(ec) ==
    /\ op = "none"
    /\ FALSE \in { CheckObstruction(board, Decode(start_center), Decode(ec), order) :
                     order \in AreaOrders(Decode(start_center)) }
    /\ board' = Table(Move(board, Decode(start_center), Decode(ec)))
    /\ ret' = MovedKeys(Decode(start_center), Decode(ec))
    /\ op' = "move"
    /\ end_center' = ec
    /\ UNCHANGED <<game_state, current_player, start_center, black_ring, white_ring, moves, frame>>

NextPiece ==
    \/ ValidMovesCall
    \/ \E ec \in PassedEnds : CheckObstructionCall(ec)
    \/ \E ec \in PassedEnds : MoveCall(ec)

SpecPiece == InitPiece /\ [][NextPiece]_vars

\* the set C12 gives for a cluster anchored at start on board b
InteriorCandidates(b, start) ==
    { q \in { <<start[1] + k * d[1], start[2] + k * d[2]>> :
                d \in { o \in Offsets \ {<<0, 0>>} :
                          At(b, <<start[1] + o[1], start[2] + o[2]>>) # " " },
                k \in 1 .. 3 } :
        0 < q[1] /\ q[1] < 19 /\ 0 < q[2] /\ q[2] < 19 }

\* C12: for a cluster with an Empty centre valid_moves returns exactly the
\* anchor + k * d, d an occupied non-centre offset and k in 1 .. 3, that have
\* 0 < row < 19 and 0 < column < 19.
C12_LimitedCandidatesAreInterior ==
    (op = "valid_moves" /\ At(board, Decode(start_center)) = " ")
        => ret = InteriorCandidates(board, Decode(start_center))

Abs(n) == IF n < 0 THEN -n ELSE n

\* the number of unit steps of a displacement along a row, a column or a diagonal
Length(disp) == IF Abs(disp[1]) > Abs(disp[2]) THEN Abs(disp[1]) ELSE Abs(disp[2])

\* the criterion of C13: a footprint cell has a non-Empty cell outside the
\* footprint strictly between itself and its destination
BlockedOnTheWay(b, start, end) ==
    LET disp  == <<end[1] - start[1], end[2] - start[2]>>
        shift == <<Sign(disp[1]), Sign(disp[2])>>
    IN  \E c \in Area(start) : \E k \in 1 .. (Length(disp) - 1) :
            LET q == <<c[1] + k * shift[1], c[2] + k * shift[2]>>
            IN  q \notin Area(start) /\ At(b, q) # " "

\* C13: for an end anchor in valid_moves, check_obstruction returns True
\* exactly when some footprint cell has, strictly before its destination, a
\* non-Empty cell outside the start footprint on its way, whatever the order
\* in which the 9 footprint cells are visited.
C13_ObstructionCriterion ==
    op = "check_obstruction"
        => ret = BlockedOnTheWay(board, Decode(start_center), Decode(end_center))

\* the cells of the grid that the points of a footprint index
GridCells(center) == { <<Idx(p[1]), Idx(p[2])>> : p \in Area(center) }

\* C14: Piece.move relocates the footprint as one block, also when the source
\* and destination footprints overlap: with the destination footprint inside
\* the grid, every destination cell c + D holds what source cell c held before
\* the call, every source cell that is not a destination cell is Empty, and
\* every cell outside the two footprints is unchanged.
C14_MoveIsBlockTransfer ==
    [][(op' = "move" /\ Area(Decode(end_center')) \subseteq Rows \X Rows) =>
          LET start == Decode(start_center')
              end   == Decode(end_center')
              D     == <<end[1] - start[1], end[2] - start[2]>>
          IN  /\ \A c \in Area(start) :
                     At(board', <<c[1] + D[1], c[2] + D[2]>>) = At(board, c)
              /\ \A q \in GridCells(start) \ GridCells(end) : At(board', q) = " "
              /\ \A q \in (Rows \X Rows) \ (GridCells(start) \cup GridCells(end)) :
                     At(board', q) = At(board, q)]_vars

\* a move by one step has put a stone on a cell of the source footprint
C14_Witness ==
    /\ op = "move"
    /\ Area(Decode(end_center)) \subseteq Rows \X Rows
    /\ Length(<<Decode(end_center)[1] - Decode(start_center)[1],
                Decode(end_center)[2] - Decode(start_center)[2]>>) = 1
    /\ \E q \in GridCells(Decode(start_center)) \cap GridCells(Decode(end_center)) :
           At(board, q) # " "

\* the number of cells of board b that hold stone
Count(b, stone) == Cardinality({ q \in Rows \X Rows : At(b, q) = stone })

\* C15: no make_move creates a stone: for each colour the number of stones on
\* the board after a make_move, successful or rejected, is at most the number
\* before it.
C15_StoneCountsNeverGrow ==
    [][op' = "make_move" =>
          \/ board' = board
          \/ \A stone \in {"B", "W"} : Count(board', stone) <= Count(board, stone)]_vars

\* a successful make_move has left fewer stones than the opening board has
C15_Witness ==
    /\ op = "make_move"
    /\ ret = TRUE
    /\ Count(board, "B") + Count(board, "W") < Count(InitBoard, "B") + Count(InitBoard, "W")

\* C16: a successful make_move places and relocates no stone of the opponent:
\* every cell that holds the opponent's colour after the move held it before.
C16_OpponentStonesStayOrVanish ==
    [][(op' = "make_move" /\ ret' = TRUE) =>
          \A q \in Rows \X Rows :
              At(board', q) = StoneOf(Other(current_player))
                  => At(board, q) = StoneOf(Other(current_player))]_vars

\* a successful make_move has captured a stone of the opponent of its mover
C16_Witness ==
    /\ op = "make_move"
    /\ ret = TRUE
    /\ moves >= 1
    /\ Count(board, StoneOf(Other(Mover(moves - 1))))
           < Count(InitBoard, StoneOf(Other(Mover(moves - 1))))

---------------------------------------------------------------------------
(* One make_move call followed statement by statement through the while      *)
(* loop of valid_moves and the loops of check_obstruction, on the boards of   *)
(* InitPiece.                                                                 *)

WalkCentres == { <<"f", 6>> }

\* end anchors in the eight directions from f6, one off every line through f6
\* and one on the border
WalkEnds ==
    { <<"b", 2>>, <<"c", 3>>, <<"f", 3>>, <<"i", 3>>, <<"c", 6>>, <<"g", 6>>,
      <<"i", 6>>, <<"e", 7>>, <<"c", 9>>, <<"f", 9>>, <<"i", 9>>, <<"g", 8>>, <<"a", 6>> }

WalkBackgrounds == { EmptyBoard, WithStone(EmptyBoard, <<1, 1>>) }

\* a list accepts the index k
OnGrid(k) == -N <= k /\ k < N

InitWalk ==
    /\ start_center \in WalkCentres
    /\ \E occupied \in { T \in SUBSET Offsets : Cardinality(T) <= MaxOccupied } :
       \E background \in WalkBackgrounds :
           board = Stamp(background, Decode(start_center), ClusterPattern(occupied))
    /\ game_state = "UNFINISHED"
    /\ current_player = "BLACK"
    /\ op = "none"
    /\ end_center = NoCenter
    /\ ret = FALSE       \* make_move has not returned True
    /\ black_ring = FALSE
    /\ white_ring = FALSE
    /\ moves = 0
    /\ frame = NoFrame

\* make_move(start_center, ec) up to its use of valid_moves
EnterMakeMove(ec) ==
    /\ op = "none"
    /\ frame.pc = "idle"
    /\ op' = "make_move"
    /\ end_center' = ec
    /\ IF \/ GameOver(game_state)
          \/ OnBorderInput(start_center)
          \/ OnBorderInput(ec)
          \/ WrongColour(AreaContents(board, Decode(start_center)), current_player)
       THEN /\ frame' = [frame EXCEPT !.pc = "returned"]
            /\ ret' = FALSE
       ELSE /\ frame' = [frame EXCEPT !.pc = "valid_moves"]
            /\ ret' = ret
    /\ UNCHANGED <<board, game_state, current_player, start_center,
                   black_ring, white_ring, moves>>

\* valid_moves to its first loop; the limited branch has no while loop
EnterValidMoves ==
    /\ frame.pc = "valid_moves"
    /\ frame' = IF Unlimited(board, Decode(start_center))
                THEN [frame EXCEPT !.pc = "for_pos", !.valid = {},
                                   !.filled = Filled(board, Decode(start_center))]
                ELSE [frame EXCEPT !.pc = "in_test",
                                   !.valid = UNION { Steps(Decode(start_center), pos) :
                                                       pos \in Filled(board, Decode(start_center)) }]
    /\ UNCHANGED <<board, game_state, current_player, op, start_center, end_center,
                   ret, black_ring, white_ring, moves>>

\* "for pos in self._filled": the next pos, in any order, or the end of the loop
\* and "return valid", which ends the life of the locals of valid_moves
ForPos ==
    /\ frame.pc = "for_pos"
    /\ IF frame.filled = {}
       THEN frame' = [frame EXCEPT !.pc = "in_test", !.pos = NoFrame.pos,
                                   !.loc = NoFrame.loc]
       ELSE \E pos \in frame.filled :
                frame' = [frame EXCEPT !.pc = "while_loc", !.filled = @ \ {pos},
                                       !.pos = pos, !.loc = Decode(start_center)]
    /\ UNCHANGED <<board, game_state, current_player, op, start_center, end_center,
                   ret, black_ring, white_ring, moves>>

\* one test of "while 0 < loc[0] < 20 and 0 < loc[1] < 20" and the body it guards
WhileLoc ==
    /\ frame.pc = "while_loc"
    /\ frame' = IF InRange(frame.loc)
                THEN LET next == <<frame.loc[1] + frame.pos[1], frame.loc[2] + frame.pos[2]>>
                     IN  [frame EXCEPT !.loc = next, !.valid = @ \cup {next}]
                ELSE [frame EXCEPT !.pc = "for_pos"]
    /\ UNCHANGED <<board, game_state, current_player, op, start_center, end_center,
                   ret, black_ring, white_ring, moves>>

\* "if (end_x, end_y) not in moving_piece.valid_moves()", then check_obstruction
\* to its for loop, which visits the set space in some order
InTest ==
    /\ frame.pc = "in_test"
    /\ IF Decode(end_center) \notin frame.valid
       THEN /\ frame' = [frame EXCEPT !.pc = "returned"]
            /\ ret' = FALSE
       ELSE /\ \E order \in AreaOrders(Decode(start_center)) :
                   frame' = [frame EXCEPT !.pc = "for_point", !.points = order,
                                          !.check = <<0, 0>>]
            /\ ret' = ret
    /\ UNCHANGED <<board, game_state, current_player, op, start_center, end_center,
                   black_ring, white_ring, moves>>

\* "for point in space": the next point with scale = 1, or the end of the loop
\* and "return False", which ends the life of the locals of check_obstruction
ForPoint ==
    /\ frame.pc = "for_point"
    /\ frame' = IF frame.points = <<>>
                THEN [frame EXCEPT !.pc = "move", !.point = NoFrame.point,
                                   !.scale = NoFrame.scale, !.check = NoFrame.check]
                ELSE [frame EXCEPT !.pc = "while_check", !.point = Head(frame.points),
                                   !.points = Tail(frame.points), !.scale = 1]
    /\ UNCHANGED <<board, game_state, current_player, op, start_center, end_center,
                   ret, black_ring, white_ring, moves>>

\* one test of the while loop of check_obstruction and the body it guards;
\* "return True" there makes make_move return False
WhileCheck ==
    /\ frame.pc = "while_check"
    /\ LET start == Decode(start_center)
           end   == Decode(end_center)
           disp  == <<end[1] - start[1], end[2] - start[2]>>
           shift == <<Sign(disp[1]), Sign(disp[2])>>
           dest  == <<frame.point[1] + disp[1], frame.point[2] + disp[2]>>
           c     == <<frame.point[1] + shift[1] * frame.scale,
                      frame.point[2] + shift[2] * frame.scale>>
       IN  IF frame.check = dest
           THEN /\ frame' = [frame EXCEPT !.pc = "for_point"]
                /\ ret' = ret
           ELSE IF c \notin Area(start) /\ ~(OnGrid(c[1]) /\ OnGrid(c[2]))
           THEN /\ frame' = [frame EXCEPT !.pc = "IndexError", !.check = c]
                /\ ret' = ret
           ELSE IF c \notin Area(start) /\ At(board, c) # " " /\ c # dest
           THEN /\ frame' = [frame EXCEPT !.pc = "returned", !.check = c]
                /\ ret' = FALSE
           ELSE /\ frame' = [frame EXCEPT !.check = c, !.scale = @ + 1]
                /\ ret' = ret
    /\ UNCHANGED <<board, game_state, current_player, op, start_center, end_center,
                   black_ring, white_ring, moves>>

\* new = moving_piece.move((end_x, end_y))
MovePiece ==
    /\ frame.pc = "move"
    /\ board' = Move(board, Decode(start_center), Decode(end_center))
    /\ frame' = [frame EXCEPT !.pc = "for_stone"]
    /\ UNCHANGED <<game_state, current_player, op, start_center, end_center, ret,
                   black_ring, white_ring, moves>>

\* "for stone in new": the new points that are in the border are deleted
ForStone ==
    /\ frame.pc = "for_stone"
    /\ board' = BorderCleanup(board, MovedKeys(Decode(start_center), Decode(end_center)))
    /\ frame' = [frame EXCEPT !.pc = "check_win"]
    /\ UNCHANGED <<game_state, current_player, op, start_center, end_center, ret,
                   black_ring, white_ring, moves>>

\* from "self._game_state = self.check_win()" to "return True"
CheckWinAndReturn ==
    /\ frame.pc = "check_win"
    /\ black_ring' = BlackRing(board)
    /\ white_ring' = WhiteRing(board)
    /\ game_state' = CheckWin(board)
    /\ current_player' = NextPlayer(current_player, CheckWin(board))
    /\ ret' = TRUE
    /\ moves' = moves + 1
    /\ frame' = [frame EXCEPT !.pc = "returned"]
    /\ UNCHANGED <<board, op, start_center, end_center>>

NextWalk ==
    \/ \E ec \in WalkEnds : EnterMakeMove(ec)
    \/ EnterValidMoves
    \/ ForPos
    \/ WhileLoc
    \/ InTest
    \/ ForPoint
    \/ WhileCheck
    \/ MovePiece
    \/ ForStone
    \/ CheckWinAndReturn

\* the interpreter goes on to the next statement as long as there is one; every
\* statement changes frame
SpecWalk == InitWalk /\ [][NextWalk]_vars /\ WF_frame(NextWalk)

\* C17: every make_move call terminates, and in the while loop of
\* check_obstruction each footprint cell goes from its own place towards its
\* destination c + D by unit steps, at most |D| of them.
C17_MakeMoveTerminates ==
    /\ (op = "make_move") ~> (frame.pc = "returned")
    /\ [](frame.pc = "while_check" /\ frame.scale > 1 =>
            LET start == Decode(start_center)
                end   == Decode(end_center)
                D     == <<end[1] - start[1], end[2] - start[2]>>
                unit  == <<D[1] \div Length(D), D[2] \div Length(D)>>
            IN  /\ D = <<Length(D) * unit[1], Length(D) * unit[2]>>
                /\ frame.scale - 1 <= Length(D)
                /\ frame.check = <<frame.point[1] + (frame.scale - 1) * unit[1],
                                   frame.point[2] + (frame.scale - 1) * unit[2]>>)

\* a make_move over four steps has walked its nine points and returned True
C17_Witness ==
    /\ op = "make_move"
    /\ frame.pc = "returned"
    /\ ret = TRUE
    /\ frame.points = <<>>
    /\ Length(<<Decode(end_center)[1] - Decode(start_center)[1],
                Decode(end_center)[2] - Decode(start_center)[2]>>) = 4
===========================================================================
